---- MODULE Spec2Model ----
(***************************************************************************)
(* Gateway resilience layer of qenergyz: the rate limiter                  *)
(* (backend/src/gateway/rate_limiter.py) and the circuit breaker           *)
(* (backend/src/gateway/circuit_breaker.py).                               *)
(*                                                                         *)
(* Time is a non-decreasing integer clock `now` (time.time() and           *)
(* datetime.utcnow() read it).  Several calls may read the same clock      *)
(* value.  In fixed/sliding-window runs one tick stands for 20 s, so the   *)
(* hard-coded 60 s window is Window = 3 ticks; in token/leaky-bucket runs  *)
(* one tick stands for 5 s and token counts are kept in units of           *)
(* 1/TokenScale token, so refill_rate = leak_rate = 0.1/s (the smallest    *)
(* value RateLimitConfig accepts) is RatePerTick = 1 unit per tick.        *)
(***************************************************************************)
EXTENDS Integers, Sequences, FiniteSets, TLC

VARIABLES
    now,            \* the clock
    burst,          \* number of calls made at the current clock value
    redis_client,   \* RateLimiter.redis_client / CircuitBreaker.redis_client is set
    strategy,       \* config.strategy of the run
    store,          \* shared store: rate_limit:* keys, per identifier
    local_cache,    \* RateLimiter._local_cache
    res,            \* the RateLimitResult of the last check_rate_limit
    resLocal,       \* lockstep runs: the result of the client-less limiter
    allowedLog      \* per identifier: the allowed answers of the trailing window,
                    \* each with its time and whether it was a fail-open answer

rlvars == <<now, burst, redis_client, strategy, store, local_cache, res, resLocal,
            allowedLog>>

VARIABLES
    cfg,            \* the CircuitBreakerConfig of the service
    circuits,       \* CircuitBreaker._circuits
    hash,           \* shared store: the hash circuit_breaker:{service}
    pc,             \* per service: "idle", or "executing" while a call admitted by
                    \* call_with_circuit_breaker runs the wrapped function (lock held)
    cur,            \* the stats object of the call that is executing
    alias,          \* whether that object is the one in _circuits
    last,           \* the last operation and what it answered
    openedAt,       \* per service: when _transition_to_open last ran, until a later
                    \* transition or reset
    halfOpenSucc,   \* per service: successes recorded since _transition_to_half_open
    locks           \* CircuitBreaker._locks: the services that have a lock

cbvars == <<cfg, circuits, hash, pc, cur, alias, last, openedAt, halfOpenSucc, locks>>

VARIABLES
    bff             \* the last request given to process_request: the steps it took,
                    \* in order, and the response

VARIABLES
    task,           \* per gateway task: the store call of check_rate_limit it is
                    \* waiting for, with the locals of the call
    granted,        \* number of checks the token bucket allowed since the start
    fault,          \* store calls of the breaker that raised: how many so far, and
                    \* whether the read / the write of the last operation did
    inst,           \* per gateway instance sharing the store: where its operation
                    \* on the service stands, the stats object the operation holds,
                    \* the outcome it records
    tally,          \* calls admitted in the current HalfOpen episode; operations
                    \* the instances have begun
    coros           \* the tasks of one process that record outcomes: per task
                    \* where its record_success / record_failure stands, the lock
                    \* object _get_lock gave it and the stats it holds; per
                    \* service the number of asyncio.Lock objects created

rlTasks == <<task, granted>>
mvars == <<inst, tally, coros>>
convars == <<task, granted, fault, mvars>>

vars == <<rlvars, cbvars, bff, convars>>

----------------------------------------------------------------------------
(* Bounds of the model *)
MaxTime == 6
MaxBurst == 3
Limit == 2
Capacity == 2

(* Program constants, in ticks / scaled units (see the header) *)
Window == 3
TokenTTL == 720
TokenScale == 2
RatePerTick == 1

\* identifiers with state in the store and the cache, and those that call
Ids == {"u", "u1", "d\\u"}
Callers == {"u"}
Strategies == {"fixed_window", "sliding_window", "token_bucket", "leaky_bucket"}
Failure == {"none", "first", "read", "write", "writeApplied"}

NoRetry == -1
One == TokenScale
Cap == Capacity * TokenScale

Min2(a, b) == IF a <= b THEN a ELSE b
Max2(a, b) == IF a >= b THEN a ELSE b
MinOf(S) == CHOOSE x \in S : \A y \in S : x <= y
MaxOf(S) == CHOOSE x \in S : \A y \in S : x >= y
\* int(x / TokenScale) for x >= 0
\* mutant: rounds down instead of towards zero
IntTokFloor(x) == x \div TokenScale
\* int(x): the fraction is cut off, towards zero
IntTok(x) == IF x >= 0 THEN x \div TokenScale ELSE 0 - ((0 - x) \div TokenScale)

NoHash == [set |-> FALSE, a |-> 0, last |-> 0]
EmptyStore == [fixed |-> {}, sliding |-> {}, token |-> NoHash, leaky |-> NoHash]
NoEntry == [present |-> FALSE, requests |-> <<>>, tokens |-> 0, last_refill |-> 0,
            volume |-> 0, last_leak |-> 0]
NoBff == [id |-> "", svc |-> "", steps |-> <<>>, kind |-> "none", success |-> TRUE,
          error |-> "", retry |-> NoRetry, denied |-> FALSE]
NoRes == [id |-> "", allowed |-> TRUE, remaining |-> 0, retry |-> NoRetry,
          failed |-> FALSE, raised |-> FALSE, local |-> FALSE]

Result(id, allowed, remaining, retry, failed, local) ==
    [id |-> id, allowed |-> allowed, remaining |-> remaining, retry |-> retry,
     failed |-> failed, raised |-> FALSE, local |-> local]

\* mutant: the except-branch denies
FailOpenDeny(id, strat) ==
    Result(id, FALSE, 0, Window, TRUE, FALSE)

\* the except-branch of each strategy: fail open
FailOpen(id, strat) ==
    Result(id, TRUE,
           IF strat \in {"fixed_window", "sliding_window"} THEN Limit ELSE Capacity,
           NoRetry, TRUE, FALSE)

----------------------------------------------------------------------------
(* Store-backed strategies.  Each takes the identifier's store record, the  *)
(* clock value read at the start of the call and the point where a store    *)
(* call raises, and gives the new store record and the result.              *)

FixedCount(st, b) ==
    IF \E r \in st.fixed : r.b = b
    THEN (CHOOSE r \in st.fixed : r.b = b).n
    ELSE 0

FixedIncr(st, b, t) ==
    [st EXCEPT !.fixed = {r \in st.fixed : r.b # b}
                           \cup {[b |-> b, n |-> FixedCount(st, b) + 1, exp |-> t + Window]}]

FixedWindowCheck(id, st, t, f) ==
    LET b == t \div Window
        current_count == FixedCount(st, b)
    IN  IF f \in {"first", "read"}
        THEN [st |-> st, res |-> FailOpen(id, "fixed_window")]
        ELSE IF current_count >= Limit
        THEN [st |-> st, res |-> Result(id, FALSE, 0, Window, FALSE, FALSE)]
        ELSE IF f = "write"
        THEN [st |-> st, res |-> FailOpen(id, "fixed_window")]
        ELSE IF f = "writeApplied"
        THEN [st |-> FixedIncr(st, b, t), res |-> FailOpen(id, "fixed_window")]
        ELSE [st |-> FixedIncr(st, b, t),
              res |-> Result(id, TRUE, Limit - current_count - 1, NoRetry, FALSE, FALSE)]

\* zremrangebyscore(key, "-inf", now - 60)
ZRemOld(S, t) == {x \in S : x > t - Window}
\* zadd(key, {str(now): now}): the member is the timestamp itself
ZAdd(S, t) == S \cup {t}

SlidingWindowCheck(id, st, t, f) ==
    LET s1 == ZRemOld(st.sliding, t)
        current_count == Cardinality(s1)
        st1 == [st EXCEPT !.sliding = s1]
    IN  IF f = "first"
        THEN [st |-> st, res |-> FailOpen(id, "sliding_window")]
        ELSE IF f = "read"
        THEN [st |-> st1, res |-> FailOpen(id, "sliding_window")]
        ELSE IF current_count >= Limit
        THEN IF f \in {"write", "writeApplied"}
             THEN [st |-> st1, res |-> FailOpen(id, "sliding_window")]
             ELSE [st |-> st1,
                   res |-> Result(id, FALSE, 0,
                                  IF s1 # {} THEN MinOf(s1) + Window - t ELSE Window,
                                  FALSE, FALSE)]
        ELSE IF f = "write"
        THEN [st |-> st1, res |-> FailOpen(id, "sliding_window")]
        ELSE IF f = "writeApplied"
        THEN [st |-> [st EXCEPT !.sliding = ZAdd(s1, t)],
              res |-> FailOpen(id, "sliding_window")]
        ELSE [st |-> [st EXCEPT !.sliding = ZAdd(s1, t)],
              res |-> Result(id, TRUE, Limit - current_count - 1, NoRetry, FALSE, FALSE)]

\* mutant: the refill is not capped at the capacity
TokenLuaNoCap(h, t) ==
    LET tokens0 == IF h.set THEN h.a ELSE Cap
        last_refill == IF h.set THEN h.last ELSE t
        tokens == tokens0 + (t - last_refill) * RatePerTick
    IN  IF tokens < One
        THEN [ok |-> FALSE, val |-> tokens, h |-> h]
        ELSE [ok |-> TRUE, val |-> tokens - One,
              h |-> [set |-> TRUE, a |-> tokens - One, last |-> t]]

\* mutant: the script answers without writing the bucket back
TokenLuaNoWrite(h, t) ==
    LET tokens0 == IF h.set THEN h.a ELSE Cap
        last_refill == IF h.set THEN h.last ELSE t
        tokens == Min2(Cap, tokens0 + (t - last_refill) * RatePerTick)
    IN  IF tokens < One
        THEN [ok |-> FALSE, val |-> tokens, h |-> h]
        ELSE [ok |-> TRUE, val |-> tokens - One, h |-> h]

\* the token-bucket lua script: [ok, tokens, hash]
TokenLua(h, t) ==
    LET tokens0 == IF h.set THEN h.a ELSE Cap
        last_refill == IF h.set THEN h.last ELSE t
        tokens == Min2(Cap, tokens0 + (t - last_refill) * RatePerTick)
    IN  IF tokens < One
        THEN [ok |-> FALSE, val |-> tokens, h |-> h]
        ELSE [ok |-> TRUE, val |-> tokens - One,
              h |-> [set |-> TRUE, a |-> tokens - One, last |-> t]]

TokenBucketCheck(id, st, t, f) ==
    LET r == TokenLua(st.token, t)
    IN  IF f \in {"first", "read", "write"}
        THEN [st |-> st, res |-> FailOpen(id, "token_bucket")]
        ELSE IF f = "writeApplied"
        THEN [st |-> [st EXCEPT !.token = r.h], res |-> FailOpen(id, "token_bucket")]
        ELSE IF ~r.ok
        THEN [st |-> [st EXCEPT !.token = r.h],
              res |-> Result(id, FALSE, 0, TokenScale \div RatePerTick, FALSE, FALSE)]
        ELSE [st |-> [st EXCEPT !.token = r.h],
              res |-> Result(id, TRUE, IntTok(r.val), NoRetry, FALSE, FALSE)]

\* the leaky-bucket lua script
LeakyLua(h, t) ==
    LET volume0 == IF h.set THEN h.a ELSE 0
        last_leak == IF h.set THEN h.last ELSE t
        volume == Max2(0, volume0 - (t - last_leak) * RatePerTick)
    IN  IF volume >= Cap
        THEN [ok |-> FALSE, val |-> volume, h |-> h]
        ELSE [ok |-> TRUE, val |-> volume + One,
              h |-> [set |-> TRUE, a |-> volume + One, last |-> t]]

LeakyBucketCheck(id, st, t, f) ==
    LET r == LeakyLua(st.leaky, t)
    IN  IF f \in {"first", "read", "write"}
        THEN [st |-> st, res |-> FailOpen(id, "leaky_bucket")]
        ELSE IF f = "writeApplied"
        THEN [st |-> [st EXCEPT !.leaky = r.h], res |-> FailOpen(id, "leaky_bucket")]
        ELSE IF ~r.ok
        THEN [st |-> [st EXCEPT !.leaky = r.h],
              res |-> Result(id, FALSE, 0, TokenScale \div RatePerTick, FALSE, FALSE)]
        ELSE [st |-> [st EXCEPT !.leaky = r.h],
              res |-> Result(id, TRUE, IntTok(Cap - r.val), NoRetry, FALSE, FALSE)]

StoreCheck(strat, id, st, t, f) ==
    CASE strat = "fixed_window" -> FixedWindowCheck(id, st, t, f)
      [] strat = "sliding_window" -> SlidingWindowCheck(id, st, t, f)
      [] strat = "token_bucket" -> TokenBucketCheck(id, st, t, f)
      [] strat = "leaky_bucket" -> LeakyBucketCheck(id, st, t, f)

----------------------------------------------------------------------------
(* _local_cache_check: the path taken when redis_client is None *)

NewEntry(t) ==
    [present |-> TRUE, requests |-> <<>>, tokens |-> Cap, last_refill |-> t,
     volume |-> 0, last_leak |-> t]

KeepRecent(q, t) == SelectSeq(q, LAMBDA x : t - x < Window)

LocalSliding(id, e, t) ==
    LET reqs == KeepRecent(e.requests, t)
        e1 == [e EXCEPT !.requests = reqs]
    IN  IF Len(reqs) >= Limit
        THEN [e |-> e1, res |-> Result(id, FALSE, 0, reqs[1] + Window - t, FALSE, TRUE)]
        ELSE [e |-> [e1 EXCEPT !.requests = Append(reqs, t)],
              res |-> Result(id, TRUE, Limit - (Len(reqs) + 1), NoRetry, FALSE, TRUE)]

LocalToken(id, e, t) ==
    LET tokens == Min2(Cap, e.tokens + (t - e.last_refill) * RatePerTick)
        e1 == [e EXCEPT !.tokens = tokens, !.last_refill = t]
    IN  IF tokens < One
        THEN [e |-> e1,
              res |-> Result(id, FALSE, 0, TokenScale \div RatePerTick, FALSE, TRUE)]
        ELSE [e |-> [e1 EXCEPT !.tokens = tokens - One],
              res |-> Result(id, TRUE, IntTok(tokens - One), NoRetry, FALSE, TRUE)]

\* "Default to simple counter for other strategies"
LocalOther(id, e, t) ==
    [e |-> e, res |-> Result(id, TRUE, Limit, NoRetry, FALSE, TRUE)]

LocalCacheCheck(strat, id, e0, t) ==
    LET e == IF e0.present THEN e0 ELSE NewEntry(t)
    IN  CASE strat = "sliding_window" -> LocalSliding(id, e, t)
          [] strat = "token_bucket" -> LocalToken(id, e, t)
          [] OTHER -> LocalOther(id, e, t)

----------------------------------------------------------------------------
(* Actions of the rate limiter *)

LogAllowed(log, id, r, t) ==
    IF r.allowed THEN [log EXCEPT ![id] = Append(@, [t |-> t, failed |-> r.failed])]
    ELSE log

\* check_rate_limit(identifier, config) with a redis client
CheckRateLimitStore(id, f) ==
    /\ redis_client
    /\ burst < MaxBurst
    /\ LET r == StoreCheck(strategy, id, store[id], now, f)
       IN  /\ store' = [store EXCEPT ![id] = r.st]
           /\ res' = r.res
           /\ allowedLog' = LogAllowed(allowedLog, id, r.res, now)
    /\ burst' = burst + 1
    /\ UNCHANGED <<now, redis_client, strategy, local_cache, resLocal>>
    /\ UNCHANGED <<cbvars, bff, convars>>

\* check_rate_limit(identifier, config) without a redis client
CheckRateLimitLocal(id) ==
    /\ ~redis_client
    /\ burst < MaxBurst
    /\ LET r == LocalCacheCheck(strategy, id, local_cache[id], now)
       IN  /\ local_cache' = [local_cache EXCEPT ![id] = r.e]
           /\ res' = r.res
           /\ allowedLog' = LogAllowed(allowedLog, id, r.res, now)
    /\ burst' = burst + 1
    /\ UNCHANGED <<now, redis_client, strategy, store, resLocal>>
    /\ UNCHANGED <<cbvars, bff, convars>>

\* keys whose TTL has run out at clock value t are gone
ExpireKeys(st, t) ==
    [fixed |-> {r \in st.fixed : r.exp > t},
     sliding |-> IF st.sliding # {} /\ MaxOf(st.sliding) + Window <= t
                 THEN {} ELSE st.sliding,
     token |-> IF st.token.set /\ st.token.last + TokenTTL <= t THEN NoHash ELSE st.token,
     leaky |-> IF st.leaky.set /\ st.leaky.last + TokenTTL <= t THEN NoHash ELSE st.leaky]

Tick ==
    /\ now < MaxTime
    /\ now' = now + 1
    /\ burst' = 0
    /\ store' = [i \in Ids |-> ExpireKeys(store[i], now + 1)]
    /\ allowedLog' = [i \in Ids |-> SelectSeq(allowedLog[i], LAMBDA x : x.t > now + 1 - Window)]
    /\ UNCHANGED <<redis_client, strategy, local_cache, res, resLocal>>
    /\ UNCHANGED <<cbvars, bff, convars>>

----------------------------------------------------------------------------
(* The circuit breaker.                                                     *)
(* average_response_time, last_failure_time and last_success_time are       *)
(* written and persisted but read by no decision; they are left out of the  *)
(* stats.                                                                   *)

\* bounds: the configuration given to the breaker (within the limits that
\* CircuitBreakerConfig accepts) and the cap on the two counters that the
\* code never resets while the state stays the same
SuccessThreshold == 2
Timeout == 2
MinimumNumberOfCalls == 4
MaxCount == 5
\* the clock value up to which the breaker is run
MaxClock == 4

\* program constants: failure_threshold of default_configs["trading"] and of
\* CircuitBreakerConfig(), the smallest sliding_window_size that
\* CircuitBreakerConfig accepts, slow_call_rate_threshold = 0.8
TradingFailureThreshold == 3
DefaultFailureThreshold == 5
SlidingWindowSize == 10
SlowRateNum == 4
SlowRateDen == 5

Services == {"trading"}
NoTime == -1

Config(ft) ==
    [failure_threshold |-> ft, success_threshold |-> SuccessThreshold,
     timeout |-> Timeout, minimum_number_of_calls |-> MinimumNumberOfCalls,
     sliding_window_size |-> SlidingWindowSize]
Configs == {Config(TradingFailureThreshold), Config(DefaultFailureThreshold)}

ClosedStats ==
    [present |-> TRUE, state |-> "closed", failure_count |-> 0, success_count |-> 0,
     total_requests |-> 0, failed_requests |-> 0, slow_requests |-> 0,
     next_attempt_time |-> NoTime]
NoStats == [ClosedStats EXCEPT !.present = FALSE]

\* gateway tasks (of one instance or of several) that share the store
Tasks == {"t1", "t2"}
NoTask == [pc |-> "idle", id |-> "", t0 |-> 0, cnt |-> 0]
\* gateway instances, each with a CircuitBreaker of its own on the same store
Instances == {"g1", "g2"}
NoInst == [pc |-> "idle", cur |-> NoStats, success |-> TRUE]
NoTally == [admitted |-> 0, ops |-> 0]
NoFault == [n |-> 0, read |-> FALSE, write |-> FALSE]
NoCoro == [pc |-> "idle", svc |-> "", obj |-> 0, success |-> TRUE, cur |-> NoStats]
NoCoros ==
    [created |-> [s \in Services |-> 0], ops |-> 0, tk |-> [t \in Tasks |-> NoCoro]]
ConcIdle ==
    /\ task = [t \in Tasks |-> NoTask]
    /\ granted = 0
    /\ fault = NoFault
    /\ inst = [i \in Instances |-> NoInst]
    /\ tally = NoTally
    /\ coros = NoCoros

\* what the latest operation on the breaker was, what it found, what it
\* answered, the alert it sent and the exception it raised to its caller
Idle ==
    [op |-> "none", svc |-> "", ok |-> TRUE, pre |-> "none", alert |-> "", raised |-> ""]

BreakerIdle ==
    /\ circuits = [s \in Services |-> NoStats]
    /\ hash = [s \in Services |-> NoStats]
    /\ pc = [s \in Services |-> "idle"]
    /\ cur = [s \in Services |-> NoStats]
    /\ alias = [s \in Services |-> FALSE]
    /\ last = Idle
    /\ openedAt = [s \in Services |-> NoTime]
    /\ halfOpenSucc = [s \in Services |-> 0]
    /\ locks = {}

TransitionToOpen(st, c, t) ==
    [st EXCEPT !.state = "open", !.next_attempt_time = t + c.timeout]

TransitionToHalfOpen(st) ==
    [st EXCEPT !.state = "half_open", !.success_count = 0, !.failure_count = 0,
               !.next_attempt_time = NoTime]

TransitionToClosed(st) ==
    [st EXCEPT !.state = "closed", !.success_count = 0, !.failure_count = 0,
               !.next_attempt_time = NoTime]

\* int(x * 0.8)
Reduce(x) == (x * 8) \div 10

\* mutant: the counters are never cut down
KeepCounters(st) == st

\* _apply_sliding_window
ApplySlidingWindow(st) ==
    [st EXCEPT !.total_requests = Reduce(@), !.failed_requests = Reduce(@),
               !.slow_requests = Reduce(@)]

\* failed_requests / total_requests >= 0.5 or
\* slow_requests / total_requests >= slow_call_rate_threshold
RateExceeded(st) ==
    \/ 2 * st.failed_requests >= st.total_requests
    \/ SlowRateDen * st.slow_requests >= SlowRateNum * st.total_requests

\* can_proceed: the synchronous check on _circuits
CanProceedSync(st, c, t) ==
    IF ~st.present THEN TRUE
    ELSE IF st.state = "closed" THEN TRUE
    ELSE IF st.state = "open"
    THEN st.next_attempt_time # NoTime /\ t >= st.next_attempt_time
    ELSE st.success_count < c.success_threshold

\* _can_proceed_async: the answer, the stats as it leaves them, the alert sent
CanProceedAsync(st, c, t) ==
    IF st.state = "closed"
    THEN IF st.total_requests >= c.minimum_number_of_calls /\ RateExceeded(st)
         THEN [ok |-> FALSE, stats |-> TransitionToOpen(st, c, t), alert |-> "OPENED"]
         ELSE [ok |-> TRUE, stats |-> st, alert |-> ""]
    ELSE IF st.state = "open"
    THEN IF st.next_attempt_time # NoTime /\ t >= st.next_attempt_time
         THEN [ok |-> TRUE, stats |-> TransitionToHalfOpen(st), alert |-> "HALF_OPENED"]
         ELSE [ok |-> FALSE, stats |-> st, alert |-> ""]
    ELSE [ok |-> st.success_count < c.success_threshold, stats |-> st, alert |-> ""]

SlidingWindowManagement(st, c) ==
    IF st.total_requests > c.sliding_window_size THEN ApplySlidingWindow(st) ELSE st

\* mutant: the first success in HalfOpen closes the breaker
RecordSuccessFirst(st, c, t, slow) ==
    LET s1 == [st EXCEPT !.success_count = @ + 1, !.total_requests = @ + 1,
                         !.slow_requests = IF slow THEN @ + 1 ELSE @]
        s2 == IF s1.state = "half_open" THEN TransitionToClosed(s1) ELSE s1
    IN  SlidingWindowManagement(s2, c)

RecordSuccess(st, c, t, slow) ==
    LET s1 == [st EXCEPT !.success_count = @ + 1, !.total_requests = @ + 1,
                         !.slow_requests = IF slow THEN @ + 1 ELSE @]
        s2 == IF s1.state = "half_open" /\ s1.success_count >= c.success_threshold
              THEN TransitionToClosed(s1) ELSE s1
    IN  SlidingWindowManagement(s2, c)

RecordFailure(st, c, t) ==
    LET s1 == [st EXCEPT !.failure_count = @ + 1, !.total_requests = @ + 1,
                         !.failed_requests = @ + 1]
        s2 == IF s1.state = "closed"
              THEN IF s1.failure_count >= c.failure_threshold
                   THEN TransitionToOpen(s1, c, t) ELSE s1
              ELSE IF s1.state = "half_open"
              THEN TransitionToOpen(s1, c, t) ELSE s1
    IN  SlidingWindowManagement(s2, c)

\* the alert a record operation sends, from the state before and after
AlertOf(pre, post) ==
    IF pre = post THEN ""
    ELSE IF post = "open" THEN "OPENED"
    ELSE IF post = "closed" THEN "CLOSED" ELSE "HALF_OPENED"

\* hset(key, mapping=data): the state and the counters always, a time only
\* when it is set; a field that is not written keeps what the hash held
HashSave(h, st) ==
    [st EXCEPT !.present = TRUE,
               !.next_attempt_time = IF @ # NoTime THEN @ ELSE h.next_attempt_time]

\* mutant: after a failed read the stats start from scratch
GetCircuitStatsFresh(s, fr) ==
    IF redis_client /\ fr = "ok" /\ hash[s].present
    THEN [stats |-> hash[s], aliased |-> FALSE]
    ELSE [stats |-> ClosedStats, aliased |-> TRUE]

\* _get_circuit_stats: the stats, whether they are the object in _circuits
GetCircuitStats(s, fr) ==
    IF redis_client /\ fr = "ok" /\ hash[s].present
    THEN [stats |-> hash[s], aliased |-> FALSE]
    ELSE [stats |-> IF circuits[s].present THEN circuits[s] ELSE ClosedStats,
          aliased |-> TRUE]

\* _save_circuit_stats
SaveCircuitStats(s, st, fw) ==
    /\ circuits' = [circuits EXCEPT ![s] = st]
    /\ hash' = IF redis_client /\ fw = "ok"
               THEN [hash EXCEPT ![s] = HashSave(@, st)] ELSE hash

rlOnly == <<burst, strategy, store, local_cache, res, resLocal, allowedLog>>

Track(s, alert) ==
    /\ openedAt' = [openedAt EXCEPT ![s] =
                       IF alert = "OPENED" THEN now
                       ELSE IF alert # "" THEN NoTime ELSE @]
    /\ halfOpenSucc' = [halfOpenSucc EXCEPT ![s] =
                           IF alert = "HALF_OPENED" THEN 0 ELSE @]

\* bound: store calls of the breaker that raise in one run
MaxFaults == 1

\* the store calls of one operation: which of them raised
Faulted(fr, fw) ==
    /\ (fr # "ok" \/ fw # "ok") => fault.n < MaxFaults
    /\ fault' = [n |-> IF fr # "ok" \/ fw # "ok" THEN fault.n + 1 ELSE fault.n,
                 read |-> fr # "ok", write |-> fw # "ok"]

\* _get_lock(service_name)
GetLock(s) == locks' = locks \cup {s}

\* call_with_circuit_breaker up to the call of the wrapped function.  The
\* body of "async with self._get_lock(service_name)" runs to the end of the
\* call, the store calls and the wrapped function included: the lock of s is
\* held exactly while pc[s] = "executing", and every operation that takes the
\* lock waits for pc[s] = "idle".
CallBegin(s, fr) ==
    /\ pc[s] = "idle"
    /\ fr = "ok" \/ redis_client
    /\ LET g == GetCircuitStats(s, fr)
           p == CanProceedAsync(g.stats, cfg, now)
       IN  /\ circuits' = IF g.aliased THEN [circuits EXCEPT ![s] = p.stats]
                          ELSE circuits
           /\ IF p.ok
              THEN /\ pc' = [pc EXCEPT ![s] = "executing"]
                   /\ cur' = [cur EXCEPT ![s] = p.stats]
                   /\ alias' = [alias EXCEPT ![s] = g.aliased]
              ELSE UNCHANGED <<pc, cur, alias>>
           /\ last' = [op |-> "call", svc |-> s, ok |-> p.ok,
                       pre |-> g.stats.state, alert |-> p.alert,
                       raised |-> IF p.ok THEN "" ELSE "CircuitBreakerException"]
           /\ Track(s, p.alert)
    /\ GetLock(s)
    /\ UNCHANGED <<now, redis_client, cfg, hash>>
    /\ Faulted(fr, "ok")
    /\ UNCHANGED <<rlOnly, bff, rlTasks, mvars>>

\* mutant: the outcome of a wrapped function that raised is recorded as a
\* success
RecordedSuccessOnly(st, success, slow) == RecordSuccess(st, cfg, now, slow)

\* _record_success(stats) after the function returned, _record_failure(stats)
\* after it raised
Recorded(st, success, slow) ==
    IF success THEN RecordSuccess(st, cfg, now, slow) ELSE RecordFailure(st, cfg, now)

CanCount(st, success) ==
    IF success THEN st.success_count < MaxCount ELSE st.failure_count < MaxCount

RecordStep(s, st, success, slow, fw, raised) ==
    LET r == Recorded(st, success, slow)
    IN  /\ SaveCircuitStats(s, r, fw)
        /\ last' = [op |-> IF success THEN "record_success" ELSE "record_failure",
                    svc |-> s, ok |-> TRUE, pre |-> st.state,
                    alert |-> AlertOf(st.state, r.state), raised |-> raised]
        /\ openedAt' = [openedAt EXCEPT ![s] =
                           IF AlertOf(st.state, r.state) = "OPENED" THEN now
                           ELSE IF AlertOf(st.state, r.state) # "" THEN NoTime ELSE @]
        /\ halfOpenSucc' = [halfOpenSucc EXCEPT ![s] =
                               IF success /\ st.state = "half_open" THEN @ + 1 ELSE @]

\* call_with_circuit_breaker from the return (or the exception) of the wrapped
\* function: _record_success / _record_failure
CallEnd(s, success, slow, fw) ==
    /\ pc[s] = "executing"
    /\ fw = "ok" \/ redis_client
    /\ slow => success
    /\ CanCount(cur[s], success)
    /\ RecordStep(s, cur[s], success, slow, fw, IF success THEN "" ELSE "Exception")
    /\ pc' = [pc EXCEPT ![s] = "idle"]
    /\ cur' = [cur EXCEPT ![s] = NoStats]
    /\ alias' = [alias EXCEPT ![s] = FALSE]
    /\ UNCHANGED <<now, redis_client, cfg, locks>>
    /\ Faulted("ok", fw)
    /\ UNCHANGED <<rlOnly, bff, rlTasks, mvars>>

\* record_success(service) / record_failure(service)
PublicRecord(s, success, fr, fw) ==
    /\ pc[s] = "idle"
    /\ (fr = "ok" /\ fw = "ok") \/ redis_client
    /\ LET g == GetCircuitStats(s, fr)
       IN  /\ CanCount(g.stats, success)
           /\ RecordStep(s, g.stats, success, FALSE, fw, "")
    /\ GetLock(s)
    /\ UNCHANGED <<now, redis_client, cfg, pc, cur, alias>>
    /\ Faulted(fr, fw)
    /\ UNCHANGED <<rlOnly, bff, rlTasks, mvars>>

\* reset_circuit(service)
ResetCircuit(s, fw) ==
    /\ pc[s] = "idle"
    /\ fw = "ok" \/ redis_client
    /\ SaveCircuitStats(s, ClosedStats, fw)
    /\ last' = [op |-> "reset", svc |-> s, ok |-> TRUE,
                pre |-> IF circuits[s].present THEN circuits[s].state ELSE "none",
                alert |-> "", raised |-> ""]
    /\ openedAt' = [openedAt EXCEPT ![s] = NoTime]
    /\ halfOpenSucc' = [halfOpenSucc EXCEPT ![s] = 0]
    /\ GetLock(s)
    /\ UNCHANGED <<now, redis_client, cfg, pc, cur, alias>>
    /\ Faulted("ok", fw)
    /\ UNCHANGED <<rlOnly, bff, rlTasks, mvars>>

\* mutant: can_proceed creates the entry of a never-seen service, as
\* _get_circuit_stats does
CanProceedCreating(s) ==
    /\ last' = [op |-> "can_proceed", svc |-> s,
                ok |-> CanProceedSync(circuits[s], cfg, now),
                pre |-> IF circuits[s].present THEN circuits[s].state ELSE "none",
                alert |-> "", raised |-> ""]
    /\ circuits' = [circuits EXCEPT ![s] = IF @.present THEN @ ELSE ClosedStats]
    /\ UNCHANGED <<now, redis_client, cfg, hash, pc, cur, alias, openedAt,
                   halfOpenSucc, locks>>
    /\ UNCHANGED <<rlOnly, bff, convars>>

\* can_proceed(service)
CanProceed(s) ==
    /\ last' = [op |-> "can_proceed", svc |-> s,
                ok |-> CanProceedSync(circuits[s], cfg, now),
                pre |-> IF circuits[s].present THEN circuits[s].state ELSE "none",
                alert |-> "", raised |-> ""]
    /\ UNCHANGED <<now, redis_client, cfg, circuits, hash, pc, cur, alias, openedAt,
                   halfOpenSucc, locks>>
    /\ UNCHANGED <<rlOnly, bff, convars>>

TickCB ==
    /\ now < MaxClock
    /\ now' = now + 1
    /\ last' = [Idle EXCEPT !.op = "tick"]
    /\ UNCHANGED <<redis_client, cfg, circuits, hash, pc, cur, alias, openedAt,
                   halfOpenSucc, locks>>
    /\ UNCHANGED <<rlOnly, bff, convars>>

InitCB ==
    /\ now = 0
    /\ burst = 0
    /\ redis_client \in BOOLEAN
    /\ strategy = "sliding_window"
    /\ store = [i \in Ids |-> EmptyStore]
    /\ local_cache = [i \in Ids |-> NoEntry]
    /\ res = NoRes
    /\ resLocal = NoRes
    /\ allowedLog = [i \in Ids |-> <<>>]
    /\ cfg \in Configs
    /\ BreakerIdle
    /\ bff = NoBff
    /\ ConcIdle

\* the breaker, with or without a redis client, the store answering every call
NextCB ==
    \/ \E s \in Services : CallBegin(s, "ok")
    \/ \E s \in Services, success \in BOOLEAN, slow \in BOOLEAN :
           CallEnd(s, success, slow, "ok")
    \/ \E s \in Services, success \in BOOLEAN : PublicRecord(s, success, "ok", "ok")
    \/ \E s \in Services : ResetCircuit(s, "ok")
    \/ \E s \in Services : CanProceed(s)
    \/ TickCB

SpecCB == InitCB /\ [][NextCB]_vars

\* calls through call_with_circuit_breaker only
NextCall ==
    \/ \E s \in Services : CallBegin(s, "ok")
    \/ \E s \in Services, success \in BOOLEAN, slow \in BOOLEAN :
           CallEnd(s, success, slow, "ok")
    \/ TickCB

SpecCall == InitCB /\ [][NextCall]_vars

\* time keeps advancing, calls keep arriving, the wrapped function ends
LiveCall ==
    /\ SpecCall
    /\ WF_vars(TickCB)
    /\ WF_vars(\E s \in Services : CallBegin(s, "ok"))
    /\ WF_vars(\E s \in Services, success \in BOOLEAN, slow \in BOOLEAN :
                   CallEnd(s, success, slow, "ok"))

\* what a store call of the breaker does
StoreOutcome == {"ok", "raises"}

InitCBFault ==
    /\ InitCB
    /\ redis_client = TRUE
    /\ cfg = Config(TradingFailureThreshold)

\* the breaker with a redis client whose calls may raise
NextCBFault ==
    \/ \E s \in Services, fr \in StoreOutcome : CallBegin(s, fr)
    \/ \E s \in Services, success \in BOOLEAN, fw \in StoreOutcome :
           CallEnd(s, success, FALSE, fw)
    \/ \E s \in Services, success \in BOOLEAN, fr \in StoreOutcome,
          fw \in StoreOutcome : PublicRecord(s, success, fr, fw)
    \/ TickCB

SpecCBFault == InitCBFault /\ [][NextCBFault]_vars

----------------------------------------------------------------------------
(* Several gateway instances on one store.  Each instance has its own       *)
(* CircuitBreaker: its own _circuits and its own locks; the hash            *)
(* circuit_breaker:{service} is shared.  A step of an instance runs from    *)
(* the answer of one store call to the next store call.  The store answers  *)
(* every call here, so an instance reads its _circuits entry only while the *)
(* hash does not exist, and then the entry does not exist either (the lock  *)
(* of the instance is held from its first read to its first write): the     *)
(* entry is left out.                                                       *)

\* _get_circuit_stats in an instance
InstGetCircuitStats(s) == IF hash[s].present THEN hash[s] ELSE ClosedStats

\* bound: operations the instances begin in one run
MaxOps == 8

\* the episode ends when stats that are not HalfOpen are written
Episode(st) ==
    [tally EXCEPT !.admitted = IF st.state = "half_open" THEN @ ELSE 0]

mframe ==
    <<burst, redis_client, cfg, strategy, store, local_cache, res, resLocal, allowedLog,
      circuits, pc, cur, alias, last, openedAt, halfOpenSucc, locks, bff, rlTasks, fault,
      coros>>

\* call_with_circuit_breaker in instance i: hgetall answers, _can_proceed_async
InstCallBegin(i, s) ==
    /\ inst[i].pc = "idle"
    /\ LET p == CanProceedAsync(InstGetCircuitStats(s), cfg, now)
       IN  IF p.ok
           THEN /\ tally.ops < MaxOps
                /\ inst' = [inst EXCEPT ![i] = [pc |-> "executing", cur |-> p.stats,
                                                success |-> TRUE]]
                /\ tally' = [admitted |-> IF p.stats.state = "half_open"
                                          THEN tally.admitted + 1 ELSE tally.admitted,
                             ops |-> tally.ops + 1]
           ELSE UNCHANGED <<inst, tally>>
    /\ UNCHANGED <<now, hash>>
    /\ UNCHANGED mframe

\* call_with_circuit_breaker in instance i: the wrapped function returns or
\* raises, _record_success / _record_failure, hset answers
InstCallEnd(i, s, success) ==
    /\ inst[i].pc = "executing"
    /\ CanCount(inst[i].cur, success)
    /\ LET r == Recorded(inst[i].cur, success, FALSE)
       IN  /\ hash' = [hash EXCEPT ![s] = HashSave(@, r)]
           /\ tally' = Episode(r)
    /\ inst' = [inst EXCEPT ![i] = NoInst]
    /\ UNCHANGED now
    /\ UNCHANGED mframe

\* record_success / record_failure in instance i: hgetall answers, the outcome
\* is applied, _save_circuit_stats sends hset
InstRecordGet(i, s, success) ==
    /\ inst[i].pc = "idle"
    /\ tally.ops < MaxOps
    /\ CanCount(InstGetCircuitStats(s), success)
    /\ inst' = [inst EXCEPT ![i] =
                    [pc |-> "hset",
                     cur |-> Recorded(InstGetCircuitStats(s), success, FALSE),
                     success |-> success]]
    /\ tally' = [tally EXCEPT !.ops = @ + 1]
    /\ UNCHANGED <<now, hash>>
    /\ UNCHANGED mframe

\* record_success / record_failure in instance i: hset answers
InstRecordSave(i, s) ==
    /\ inst[i].pc = "hset"
    /\ hash' = [hash EXCEPT ![s] = HashSave(@, inst[i].cur)]
    /\ tally' = Episode(inst[i].cur)
    /\ inst' = [inst EXCEPT ![i] = NoInst]
    /\ UNCHANGED now
    /\ UNCHANGED mframe

InitMulti ==
    /\ InitCB
    /\ redis_client = TRUE
    /\ cfg = Config(TradingFailureThreshold)

NextMulti ==
    \/ \E i \in Instances, s \in Services : InstCallBegin(i, s)
    \/ \E i \in Instances, s \in Services, success \in BOOLEAN :
           InstCallEnd(i, s, success)
    \/ \E i \in Instances, s \in Services, success \in BOOLEAN :
           InstRecordGet(i, s, success)
    \/ \E i \in Instances, s \in Services : InstRecordSave(i, s)
    \/ TickCB

SpecMulti == InitMulti /\ [][NextMulti]_vars

----------------------------------------------------------------------------
(* Tasks of one process that record outcomes for a service at the same      *)
(* time, on a store that answers.  A task runs without interruption from    *)
(* one await to the next: _get_lock has no await, "async with lock" goes on *)
(* at once when the lock is free, hgetall and hset suspend the task.        *)

\* bound: record operations the tasks begin in one run
MaxLockOps == 4

\* mutant: _get_lock makes a new lock although _locks holds one (a check and
\* an insert that another task got between)
GetLockFresh(s) == coros.created[s] + 1

\* _get_lock(service_name): the lock object the caller gets, numbered in the
\* order of creation; a new one only when _locks holds none for the service
GetLockObject(s) == IF coros.created[s] = 0 THEN 1 ELSE coros.created[s]

InLock == {"hgetall", "hset"}

\* lock object o of service s is held by a task
Locked(s, o) ==
    \E t \in Tasks :
        coros.tk[t].pc \in InLock /\ coros.tk[t].svc = s /\ coros.tk[t].obj = o

cframe ==
    <<now, burst, redis_client, cfg, strategy, store, local_cache, res, resLocal,
      allowedLog, pc, cur, alias, bff, rlTasks, fault, inst, tally>>

\* record_success / record_failure in task t: _get_lock, then the lock is
\* taken and hgetall sent, or the task waits for the lock
RecordLock(t, s, success) ==
    /\ coros.tk[t].pc = "idle"
    /\ coros.ops < MaxLockOps
    /\ LET o == GetLockObject(s)
       IN  coros' = [created |-> [coros.created EXCEPT ![s] = o],
                     ops |-> coros.ops + 1,
                     tk |-> [coros.tk EXCEPT ![t] =
                                [pc |-> IF Locked(s, o) THEN "acquire" ELSE "hgetall",
                                 svc |-> s, obj |-> o, success |-> success,
                                 cur |-> NoStats]]]
    /\ GetLock(s)
    /\ UNCHANGED <<circuits, hash, last, openedAt, halfOpenSucc>>
    /\ UNCHANGED cframe

\* the lock is released to a task that waits for it; hgetall is sent
RecordAcquire(t) ==
    /\ coros.tk[t].pc = "acquire"
    /\ ~Locked(coros.tk[t].svc, coros.tk[t].obj)
    /\ coros' = [coros EXCEPT !.tk[t].pc = "hgetall"]
    /\ UNCHANGED <<circuits, hash, last, openedAt, halfOpenSucc, locks>>
    /\ UNCHANGED cframe

\* hgetall answers: _record_success / _record_failure on the stats read,
\* _save_circuit_stats sets _circuits and sends hset
RecordGet(t) ==
    /\ coros.tk[t].pc = "hgetall"
    /\ LET s == coros.tk[t].svc
           success == coros.tk[t].success
           st == GetCircuitStats(s, "ok").stats
           r == Recorded(st, success, FALSE)
       IN  /\ circuits' = [circuits EXCEPT ![s] = r]
           /\ coros' = [coros EXCEPT !.tk[t].pc = "hset", !.tk[t].cur = r]
           /\ last' = [op |-> IF success THEN "record_success" ELSE "record_failure",
                       svc |-> s, ok |-> TRUE, pre |-> st.state,
                       alert |-> AlertOf(st.state, r.state), raised |-> ""]
           /\ openedAt' = [openedAt EXCEPT ![s] =
                              IF AlertOf(st.state, r.state) = "OPENED" THEN now
                              ELSE IF AlertOf(st.state, r.state) # "" THEN NoTime ELSE @]
           /\ halfOpenSucc' = [halfOpenSucc EXCEPT ![s] =
                                  IF success /\ st.state = "half_open" THEN @ + 1 ELSE @]
    /\ UNCHANGED <<hash, locks>>
    /\ UNCHANGED cframe

\* hset and expire answer: the lock is released
RecordSave(t) ==
    /\ coros.tk[t].pc = "hset"
    /\ hash' = [hash EXCEPT ![coros.tk[t].svc] = HashSave(@, coros.tk[t].cur)]
    /\ coros' = [coros EXCEPT !.tk[t] = NoCoro]
    /\ UNCHANGED <<circuits, last, openedAt, halfOpenSucc, locks>>
    /\ UNCHANGED cframe

InitLock ==
    /\ InitCB
    /\ redis_client = TRUE
    /\ cfg = Config(TradingFailureThreshold)

NextLock ==
    \/ \E t \in Tasks, s \in Services, success \in BOOLEAN : RecordLock(t, s, success)
    \/ \E t \in Tasks : RecordAcquire(t)
    \/ \E t \in Tasks : RecordGet(t)
    \/ \E t \in Tasks : RecordSave(t)

SpecLock == InitLock /\ [][NextLock]_vars

----------------------------------------------------------------------------
(* Specifications of the rate limiter *)

InitRL ==
    /\ now = 0
    /\ burst = 0
    /\ redis_client \in BOOLEAN
    /\ strategy \in Strategies
    /\ store = [i \in Ids |-> EmptyStore]
    /\ local_cache = [i \in Ids |-> NoEntry]
    /\ res = NoRes
    /\ resLocal = NoRes
    /\ allowedLog = [i \in Ids |-> <<>>]
    /\ cfg = Config(DefaultFailureThreshold)
    /\ BreakerIdle
    /\ bff = NoBff
    /\ ConcIdle

NextRL ==
    \/ \E id \in Callers, f \in Failure : CheckRateLimitStore(id, f)
    \/ \E id \in Callers : CheckRateLimitLocal(id)
    \/ Tick

SpecRL == InitRL /\ [][NextRL]_vars

----------------------------------------------------------------------------
(* Lockstep run: a limiter with a redis client whose store answers every    *)
(* call, and a limiter without one, are given the same checks at the same   *)
(* clock values.                                                            *)

CheckBoth(id) ==
    /\ burst < MaxBurst
    /\ LET r == StoreCheck(strategy, id, store[id], now, "none")
           l == LocalCacheCheck(strategy, id, local_cache[id], now)
       IN  /\ store' = [store EXCEPT ![id] = r.st]
           /\ local_cache' = [local_cache EXCEPT ![id] = l.e]
           /\ res' = r.res
           /\ resLocal' = l.res
    /\ burst' = burst + 1
    /\ UNCHANGED <<now, redis_client, strategy, allowedLog>>
    /\ UNCHANGED <<cbvars, bff, convars>>

InitPair ==
    /\ InitRL
    /\ redis_client = TRUE

NextPair ==
    \/ \E id \in Callers : CheckBoth(id)
    \/ Tick

SpecPair == InitPair /\ [][NextPair]_vars

----------------------------------------------------------------------------
(* reset_rate_limit.  Keys and the scan pattern are sequences of symbols:   *)
(* the words rate_limit, fixed, sliding, token, leaky and the window        *)
(* timestamp are one symbol each, an identifier is its characters.          *)

Chars(id) ==
    CASE id = "u" -> <<"u">>
      [] id = "u1" -> <<"u", "1">>
      [] id = "d\\u" -> <<"d", "\\", "u">>

Kinds == {"fixed", "sliding", "token", "leaky"}

\* f"rate_limit:{kind}:{identifier}", with ":{window_start.timestamp()}" for
\* the fixed window
KeyOf(kind, id) ==
    <<"rate_limit", ":", kind, ":">> \o Chars(id)
        \o (IF kind = "fixed" THEN <<":", "ts">> ELSE <<>>)

\* f"rate_limit:*:{identifier}*"
ScanPattern(id) == <<"rate_limit", ":", "*", ":">> \o Chars(id) \o <<"*">>

\* glob matching of MATCH patterns: * any run, ? any one symbol, \x the
\* symbol x itself (no identifier of the model holds a bracket)
RECURSIVE GlobMatch(_, _)
GlobMatch(p, k) ==
    IF p = <<>> THEN k = <<>>
    ELSE IF Head(p) = "*"
    THEN GlobMatch(Tail(p), k) \/ (k # <<>> /\ GlobMatch(p, Tail(k)))
    ELSE IF Head(p) = "?"
    THEN k # <<>> /\ GlobMatch(Tail(p), Tail(k))
    ELSE IF Head(p) = "\\" /\ Len(p) >= 2
    THEN k # <<>> /\ Head(k) = p[2] /\ GlobMatch(Tail(Tail(p)), Tail(k))
    ELSE k # <<>> /\ Head(k) = Head(p) /\ GlobMatch(Tail(p), Tail(k))

\* the keys of identifier i that scan_iter(match=pattern) of a reset of id finds
Scanned(id, i, kind) == GlobMatch(ScanPattern(id), KeyOf(kind, i))

\* redis_client.delete(*keys) on the store record of identifier i
DeleteScanned(id, i, st) ==
    [fixed |-> IF Scanned(id, i, "fixed") THEN {} ELSE st.fixed,
     sliding |-> IF Scanned(id, i, "sliding") THEN {} ELSE st.sliding,
     token |-> IF Scanned(id, i, "token") THEN NoHash ELSE st.token,
     leaky |-> IF Scanned(id, i, "leaky") THEN NoHash ELSE st.leaky]

ResetFailure == {"none", "scan", "delete"}

\* reset_rate_limit(identifier); f is where a store call raises
ResetRateLimit(id, f) ==
    /\ burst < MaxBurst
    /\ f = "none" \/ redis_client
    /\ store' = IF redis_client /\ f = "none"
                THEN [i \in Ids |-> DeleteScanned(id, i, store[i])]
                ELSE store
    /\ local_cache' = IF f = "none" THEN [local_cache EXCEPT ![id] = NoEntry]
                      ELSE local_cache
    /\ burst' = burst + 1
    /\ res' = NoRes
    /\ UNCHANGED <<now, redis_client, strategy, resLocal, allowedLog>>
    /\ UNCHANGED <<cbvars, bff, convars>>

\* bound: the clock value up to which the runs with resets go
MaxResetTime == 1

TickReset ==
    /\ now < MaxResetTime
    /\ Tick

\* the identifiers that are checked and those that are reset
Checked == {"u1", "d\\u"}
Resetted == {"u", "d\\u"}

\* the limiter with checks of several identifiers and resets
NextReset ==
    \/ \E id \in Checked : CheckRateLimitStore(id, "none")
    \/ \E id \in Checked : CheckRateLimitLocal(id)
    \/ \E id \in Resetted, f \in ResetFailure : ResetRateLimit(id, f)
    \/ TickReset

SpecReset == InitRL /\ [][NextReset]_vars

----------------------------------------------------------------------------
(* The dispatcher, QenergyZBFF.process_request.  The BFF builds RateLimiter() *)
(* and CircuitBreaker() without a redis client and checks with the default   *)
(* configuration.  record_success and record_failure are coroutine functions *)
(* that process_request calls without await: the coroutine object is         *)
(* dropped and the body never runs.                                          *)

\* "if not <RateLimitResult>": an instance of a pydantic model is truthy
Truthy(r) == TRUE

Outcomes == {"returns", "raises"}

\* the response and the steps of a request, from the result of the rate-limit
\* check, the answer of can_proceed and the outcome of the downstream call
BffResponse(id, s, r, proceed, outcome) ==
    IF ~Truthy(r)
    THEN [id |-> id, svc |-> s, steps |-> <<"rate_limit">>, kind |-> "HTTPException",
          success |-> FALSE, error |-> "429", retry |-> NoRetry, denied |-> ~r.allowed]
    ELSE IF ~proceed
    THEN [id |-> id, svc |-> s,
          steps |-> <<"rate_limit", "circuit_breaker", "record_failure not awaited">>,
          kind |-> "BFFResponse", success |-> FALSE, error |-> "503", retry |-> NoRetry,
          denied |-> ~r.allowed]
    ELSE IF outcome = "raises"
    THEN [id |-> id, svc |-> s,
          steps |-> <<"rate_limit", "circuit_breaker", "downstream",
                      "record_failure not awaited">>,
          kind |-> "BFFResponse", success |-> FALSE, error |-> "downstream",
          retry |-> NoRetry, denied |-> ~r.allowed]
    ELSE [id |-> id, svc |-> s,
          steps |-> <<"rate_limit", "circuit_breaker", "downstream",
                      "record_success not awaited">>,
          kind |-> "BFFResponse", success |-> TRUE, error |-> "", retry |-> NoRetry,
          denied |-> ~r.allowed]

\* process_request(request) with request.user_id = id, request.service = s
ProcessRequest(id, s, outcome) ==
    /\ ~redis_client
    /\ burst < MaxBurst
    /\ LET r == LocalCacheCheck(strategy, id, local_cache[id], now)
       IN  /\ local_cache' = [local_cache EXCEPT ![id] = r.e]
           /\ res' = r.res
           /\ allowedLog' = LogAllowed(allowedLog, id, r.res, now)
           /\ bff' = BffResponse(id, s, r.res, CanProceedSync(circuits[s], cfg, now),
                                 outcome)
    /\ burst' = burst + 1
    /\ UNCHANGED <<now, redis_client, strategy, store, resLocal>>
    /\ UNCHANGED <<cbvars, convars>>

\* the BFF: the default rate-limit configuration (sliding window), the
\* breaker configuration of the service
InitBFF ==
    /\ now = 0
    /\ burst = 0
    /\ redis_client = FALSE
    /\ strategy = "sliding_window"
    /\ store = [i \in Ids |-> EmptyStore]
    /\ local_cache = [i \in Ids |-> NoEntry]
    /\ res = NoRes
    /\ resLocal = NoRes
    /\ allowedLog = [i \in Ids |-> <<>>]
    /\ cfg = Config(TradingFailureThreshold)
    /\ BreakerIdle
    /\ bff = NoBff
    /\ ConcIdle

\* requests through the dispatcher; the breaker of the BFF is also driven
\* through its own record operations, awaited by their caller
NextBFF ==
    \/ \E id \in Callers, s \in Services, o \in Outcomes : ProcessRequest(id, s, o)
    \/ \E s \in Services, success \in BOOLEAN : PublicRecord(s, success, "ok", "ok")
    \/ Tick

SpecBFF == InitBFF /\ [][NextBFF]_vars

----------------------------------------------------------------------------
(* check_rate_limit against the store, one store call at a time.  A task    *)
(* starts a check, reads the clock and sends its first store call; each     *)
(* further step is the answer of the store call the task waits for.  The    *)
(* code gives no store call a timeout: a call that is not answered leaves   *)
(* the task where it is.                                                    *)

FirstCall(strat) ==
    CASE strat = "fixed_window" -> "get"
      [] strat = "sliding_window" -> "zremrangebyscore"
      [] OTHER -> "eval"

Returned(t, r) ==
    /\ task' = [task EXCEPT ![t] = NoTask]
    /\ res' = r
    /\ allowedLog' = LogAllowed(allowedLog, r.id, r, task[t].t0)

Waiting(t, call) ==
    /\ task' = [task EXCEPT ![t].pc = call]
    /\ UNCHANGED <<res, allowedLog>>

\* check_rate_limit(identifier, config) up to its first store call
CheckStart(t, id) ==
    /\ redis_client
    /\ task[t].pc = "idle"
    /\ burst < MaxBurst
    /\ burst' = burst + 1
    /\ task' = [task EXCEPT ![t] = [pc |-> FirstCall(strategy), id |-> id,
                                     t0 |-> now, cnt |-> 0]]
    /\ UNCHANGED <<now, redis_client, strategy, store, local_cache, res, resLocal,
                   allowedLog, granted, fault, mvars>>
    /\ UNCHANGED <<cbvars, bff>>

\* _fixed_window_check: get(key) answers
AnswerGet(t) ==
    /\ task[t].pc = "get"
    /\ LET id == task[t].id
           current_count == FixedCount(store[id], task[t].t0 \div Window)
       IN  IF current_count >= Limit
           THEN Returned(t, Result(id, FALSE, 0, Window, FALSE, FALSE))
           ELSE /\ task' = [task EXCEPT ![t].pc = "incr", ![t].cnt = current_count]
                /\ UNCHANGED <<res, allowedLog>>
    /\ UNCHANGED <<now, burst, redis_client, strategy, store, local_cache, resLocal,
                   granted, fault, mvars>>
    /\ UNCHANGED <<cbvars, bff>>

\* _fixed_window_check: the pipeline incr(key), expire(key, 60) answers
AnswerIncr(t) ==
    /\ task[t].pc = "incr"
    /\ LET id == task[t].id
       IN  /\ store' = [store EXCEPT
                           ![id] = FixedIncr(@, task[t].t0 \div Window, now)]
           /\ Returned(t, Result(id, TRUE, Limit - task[t].cnt - 1, NoRetry,
                                  FALSE, FALSE))
    /\ UNCHANGED <<now, burst, redis_client, strategy, local_cache, resLocal, granted, fault, mvars>>
    /\ UNCHANGED <<cbvars, bff>>

\* _sliding_window_check: zremrangebyscore(key, "-inf", window_start) answers
AnswerZRem(t) ==
    /\ task[t].pc = "zremrangebyscore"
    /\ store' = [store EXCEPT ![task[t].id].sliding = ZRemOld(@, task[t].t0)]
    /\ Waiting(t, "zcard")
    /\ UNCHANGED <<now, burst, redis_client, strategy, local_cache, resLocal, granted, fault, mvars>>
    /\ UNCHANGED <<cbvars, bff>>

\* _sliding_window_check: zcard(key) answers
AnswerZCard(t) ==
    /\ task[t].pc = "zcard"
    /\ LET current_count == Cardinality(store[task[t].id].sliding)
       IN  task' = [task EXCEPT
                       ![t].pc = IF current_count >= Limit THEN "zrange" ELSE "zadd",
                       ![t].cnt = current_count]
    /\ UNCHANGED <<now, burst, redis_client, strategy, store, local_cache, res,
                   resLocal, allowedLog, granted, fault, mvars>>
    /\ UNCHANGED <<cbvars, bff>>

\* _sliding_window_check: zrange(key, 0, 0, withscores=True) answers
AnswerZRange(t) ==
    /\ task[t].pc = "zrange"
    /\ LET id == task[t].id
           S == store[id].sliding
       IN  Returned(t, Result(id, FALSE, 0,
                              IF S # {} THEN MinOf(S) + Window - task[t].t0
                              ELSE Window,
                              FALSE, FALSE))
    /\ UNCHANGED <<now, burst, redis_client, strategy, store, local_cache, resLocal,
                   granted, fault, mvars>>
    /\ UNCHANGED <<cbvars, bff>>

\* _sliding_window_check: the pipeline zadd(key, {str(now): now}),
\* expire(key, 60) answers
AnswerZAdd(t) ==
    /\ task[t].pc = "zadd"
    /\ LET id == task[t].id
       IN  /\ store' = [store EXCEPT ![id].sliding = ZAdd(@, task[t].t0)]
           /\ Returned(t, Result(id, TRUE, Limit - task[t].cnt - 1, NoRetry,
                                  FALSE, FALSE))
    /\ UNCHANGED <<now, burst, redis_client, strategy, local_cache, resLocal, granted, fault, mvars>>
    /\ UNCHANGED <<cbvars, bff>>

\* _token_bucket_check / _leaky_bucket_check: eval(lua_script, ...) answers;
\* the script runs with the clock value the task read when the check began
AnswerEval(t) ==
    /\ task[t].pc = "eval"
    /\ LET id == task[t].id
           r == StoreCheck(strategy, id, store[id], task[t].t0, "none")
       IN  /\ store' = [store EXCEPT ![id] = r.st]
           /\ Returned(t, r.res)
           /\ granted' = IF r.res.allowed THEN granted + 1 ELSE granted
    /\ UNCHANGED <<now, burst, redis_client, strategy, local_cache, resLocal, fault, mvars>>
    /\ UNCHANGED <<cbvars, bff>>

InitConc ==
    /\ InitRL
    /\ redis_client = TRUE

NextConc ==
    \/ \E t \in Tasks, id \in Callers : CheckStart(t, id)
    \/ \E t \in Tasks : AnswerGet(t)
    \/ \E t \in Tasks : AnswerIncr(t)
    \/ \E t \in Tasks : AnswerZRem(t)
    \/ \E t \in Tasks : AnswerZCard(t)
    \/ \E t \in Tasks : AnswerZRange(t)
    \/ \E t \in Tasks : AnswerZAdd(t)
    \/ \E t \in Tasks : AnswerEval(t)
    \/ Tick

SpecConc == InitConc /\ [][NextConc]_vars

\* the clock goes on whatever the store does; nothing makes the store answer
LiveConc == SpecConc /\ WF_vars(Tick)

----------------------------------------------------------------------------
(* Claims about the rate limiter *)

CheckStep == burst' = burst + 1
Answered(id) == {i \in 1..Len(allowedLog[id]) : ~allowedLog[id][i].failed}

\* C1: under the sliding-window strategy the number of calls answered
\* allowed=True within the trailing 60 s never exceeds requests_per_minute
\* (counted here over the answers the algorithm gave, leaving out the answers
\* given fail-open after a store error).
C1_SlidingWindowBound ==
    strategy = "sliding_window" =>
        \A id \in Ids : Cardinality(Answered(id)) <= Limit

TokenStored(id) ==
    IF redis_client THEN store[id].token.a ELSE local_cache[id].tokens
TokenKnown(id) ==
    IF redis_client THEN store[id].token.set ELSE local_cache[id].present
\* min(capacity, tokens + elapsed * refill_rate) of the identifier's stored state
Refilled(id) ==
    IF ~TokenKnown(id) THEN Cap
    ELSE Min2(Cap, TokenStored(id)
                   + (now - (IF redis_client THEN store[id].token.last
                             ELSE local_cache[id].last_refill)) * RatePerTick)

\* C7: under the token-bucket strategy the stored token count is never above
\* bucket_capacity and never below 0, and every allowed check stores exactly
\* one token less than the refilled amount.
C7_TokenBucketBounds ==
    [][strategy = "token_bucket" =>
        \A id \in Ids :
            /\ TokenKnown(id)' => (TokenStored(id)' >= 0 /\ TokenStored(id)' <= Cap)
            /\ (CheckStep /\ res'.id = id /\ res'.allowed /\ ~res'.failed)
                   => TokenStored(id)' = Refilled(id) - One]_vars

\* C7 witness: an allowed token-bucket check has stored a fractional token
\* count after a refill.
C7_Witness ==
    /\ strategy = "token_bucket"
    /\ res.id = "u" /\ res.allowed /\ ~res.failed
    /\ TokenKnown("u") /\ TokenStored("u") = 1 /\ now > 0

\* C8: a token-bucket check that finds fewer than one token is denied and
\* leaves the stored token state (tokens, last_refill) as it was, in the
\* store-backed path and in the local fallback.
C8_DeniedTokenCheckNoMutation ==
    [][(strategy = "token_bucket" /\ CheckStep /\ ~res'.allowed)
          => (store' = store /\ local_cache' = local_cache)]_vars

\* C9: a check during which a store call fails returns a result with
\* allowed=True, whatever the strategy and the state of the identifier; it
\* neither raises nor denies.
C9_FailOpen ==
    res.failed => (res.allowed /\ ~res.raised)

\* C9 witness: the store failed during a sliding-window check of an identifier
\* that had used up its limit.
C9_Witness ==
    /\ strategy = "sliding_window" /\ redis_client
    /\ res.failed /\ res.id = "u"
    /\ Cardinality(ZRemOld(store["u"].sliding, now)) >= Limit

\* C10: the limiter without a store allows and denies the same calls as the
\* store-backed algorithm, for each of the four strategies.
C10_LocalEqualsStore ==
    res.allowed = resLocal.allowed

\* C18: every check_rate_limit call returns a result with
\* requests_remaining >= 0, and every denied result has requests_remaining = 0
\* and carries a retry_after.
C18_ResultComplete ==
    res.id # "" =>
        /\ ~res.raised
        /\ res.remaining >= 0
        /\ ~res.allowed => (res.remaining = 0 /\ res.retry # NoRetry)

\* a check was denied
C18_Witness ==
    res.id # "" /\ ~res.allowed /\ ~res.failed /\ res.retry > 0

\* the identifier's window holds nothing but the calls of the current second,
\* all of them answered by the algorithm
SameSecondBurst(id) ==
    /\ \A i \in 1..Len(allowedLog[id]) :
           allowedLog[id][i].t = now /\ ~allowedLog[id][i].failed
    /\ \A x \in store[id].sliding : x = now
    /\ \A i \in 1..Len(local_cache[id].requests) : local_cache[id].requests[i] = now

\* C19: under the sliding-window strategy, starting from an empty window, the
\* calls of one second are allowed with requests_remaining N-1, N-2, ..., 0 and
\* the call after the N-th is denied with requests_remaining = 0 and
\* retry_after > 0.
C19_SlidingWindowBurst ==
    [][\A id \in Ids :
          (/\ strategy = "sliding_window"
           /\ CheckStep /\ res'.id = id /\ ~res'.failed
           /\ SameSecondBurst(id))
              => LET k == Len(allowedLog[id])
                 IN  IF k < Limit
                     THEN res'.allowed /\ res'.remaining = Limit - k - 1
                     ELSE ~res'.allowed /\ res'.remaining = 0 /\ res'.retry > 0]_vars

\* C20: under the fixed-window strategy every check answered by the store
\* increments the counter of its (identifier, minute-bucket), denied checks
\* included, and the check is denied exactly when the count after the
\* increment is greater than requests_per_minute.
C20_FixedWindowCountsEveryCheck ==
    [][\A id \in Ids :
          (/\ strategy = "fixed_window" /\ redis_client
           /\ CheckStep /\ res'.id = id /\ ~res'.failed)
              => LET b == now \div Window
                 IN  /\ FixedCount(store'[id], b) = FixedCount(store[id], b) + 1
                     /\ ~res'.allowed <=> FixedCount(store'[id], b) > Limit]_vars

----------------------------------------------------------------------------
(* Claims about the circuit breaker *)

RecordOps == {"record_success", "record_failure"}

\* C2: a Closed breaker never becomes Open while total_requests is below
\* minimum_number_of_calls.
C2_NoOpenBelowMinimumCalls ==
    [][\A s \in Services :
          (circuits[s].state = "closed" /\ circuits'[s].state = "open")
              => circuits'[s].total_requests >= cfg.minimum_number_of_calls]_vars

\* C3: a record operation that leaves a breaker, Closed before it, with
\* total_requests >= minimum_number_of_calls and the failure rate or the slow
\* rate at its threshold has opened the breaker, so can_proceed answers false.
C3_RecordOpensOnRate ==
    \A s \in Services :
        (/\ last.op \in RecordOps /\ last.svc = s /\ last.pre = "closed"
         /\ circuits[s].total_requests >= cfg.minimum_number_of_calls
         /\ RateExceeded(circuits[s]))
            => (circuits[s].state = "open" /\ ~CanProceedSync(circuits[s], cfg, now))

\* C4: from the time T at which a breaker was moved to Open until T + timeout,
\* can_proceed(service) answers false.
C4_OpenRejectsUntilTimeout ==
    \A s \in Services :
        (openedAt[s] # NoTime /\ now < openedAt[s] + cfg.timeout)
            => ~CanProceedSync(circuits[s], cfg, now)

\* C5: a call admitted on an Open breaker whose timeout has elapsed finds the
\* breaker HalfOpen with success_count = failure_count = 0 before it runs.
C5_ProbeRunsHalfOpen ==
    \A s \in Services :
        (last.op = "can_proceed" /\ last.svc = s /\ last.ok /\ last.pre = "open")
            => /\ circuits[s].state = "half_open"
               /\ circuits[s].success_count = 0
               /\ circuits[s].failure_count = 0

C11_ResetGivesBaseline ==
    \A s \in Services :
        (last.op = "reset" /\ last.svc = s)
            => /\ circuits[s] = ClosedStats
               /\ GetCircuitStats(s, "ok").stats = ClosedStats

\* C12: after reset_rate_limit(identifier), with the store answering, no
\* state of the identifier is left in the store or in the local cache.
C12_ResetClearsIdentifier ==
    [][\A id \in Ids :
          ResetRateLimit(id, "none")
              => (store'[id] = EmptyStore /\ local_cache'[id] = NoEntry)]_vars

C14_StateChangeAlerts ==
    \A s \in Services :
        last.svc = s =>
            /\ (last.op \in RecordOps \cup {"reset"} /\ last.pre # "none"
                   /\ circuits[s].state # last.pre) => last.alert # ""
            /\ (last.op = "call" /\ last.ok /\ cur[s].state # last.pre)
                   => last.alert # ""

\* C15: can_proceed(service) leaves the local stats of every service, the
\* lock table, the running calls and the store as they were.
C15_CanProceedChangesNothing ==
    [][\A s \in Services :
          CanProceed(s)
              => /\ circuits' = circuits /\ locks' = locks /\ hash' = hash
                 /\ pc' = pc /\ cur' = cur /\ store' = store]_vars

\* C15 witness: can_proceed has answered true for an Open breaker whose
\* timeout has elapsed, and the breaker is still Open.
C15_Witness ==
    /\ last.op = "can_proceed" /\ last.pre = "open" /\ last.ok
    /\ circuits["trading"].state = "open"

\* C27: persisting the stats of a service and reading them back gives the
\* same stats, whatever the store held for the service before; a
\* next_attempt_time that is unset when saved is read back as unset.
C27_SaveReadRoundTrip ==
    \A s \in Services :
        (/\ redis_client
         /\ last.svc = s
         /\ last.op \in {"record_success", "record_failure", "reset"})
            => GetCircuitStats(s, "ok").stats = circuits[s]

\* C30: once the breaker has closed from HalfOpen, no call through
\* call_with_circuit_breaker is rejected as long as every outcome recorded
\* since is a fast success.  Checked for the call that follows the closing
\* directly, with no outcome recorded in between.
C30_ClosedStaysClosed ==
    [][\A s \in Services :
          (last.alert = "CLOSED" /\ last.svc = s /\ CallBegin(s, "ok"))
              => last'.ok]_vars

----------------------------------------------------------------------------
(* Claims about the dispatcher *)

\* the position of a step in the steps of a request, 0 if it was not taken
StepAt(steps, name) ==
    IF \E i \in 1..Len(steps) : steps[i] = name
    THEN CHOOSE i \in 1..Len(steps) : steps[i] = name
    ELSE 0

\* C16: a request that reaches the rate-limiter check has passed the
\* circuit-breaker check before it, and a request that the breaker rejects
\* leaves the rate-limit state of its identifier as it was.
C16_BreakerBeforeRateLimit ==
    [][\A id \in Callers, s \in Services, o \in Outcomes :
          ProcessRequest(id, s, o)
              => /\ StepAt(bff'.steps, "rate_limit") # 0
                        => /\ StepAt(bff'.steps, "circuit_breaker") # 0
                           /\ StepAt(bff'.steps, "circuit_breaker")
                                  < StepAt(bff'.steps, "rate_limit")
                 /\ ~CanProceedSync(circuits[s], cfg, now)
                        => local_cache'[id] = local_cache[id]]_vars

\* C17: a request rejected because the breaker is open is answered with the
\* circuit-open error, which carries the service and a retry_after, and the
\* rejection records no outcome.
C17_RejectionIsCircuitOpenError ==
    bff.error = "503"
        => /\ bff.kind = "CircuitBreakerException"
           /\ bff.retry # NoRetry
           /\ StepAt(bff.steps, "record_failure not awaited") = 0

----------------------------------------------------------------------------
(* Claims about concurrent callers and the store *)

\* C21: every check_rate_limit call returns, also when a store call is never
\* answered: a task that waits for a store call is back to idle after a
\* bounded time.
C21_EveryCheckReturns ==
    \A t \in Tasks : (task[t].pc # "idle") ~> (task[t].pc = "idle")

\* _circuits[service], or the fresh Closed stats of a service not seen before
LocalStats(s) == IF circuits[s].present THEN circuits[s] ELSE ClosedStats

InBucket(id, b) ==
    {i \in 1..Len(allowedLog[id]) : allowedLog[id][i].t \div Window = b}

\* the allowed answers of the identifier whose check began in the trailing 60 s
InWindow(id) ==
    {i \in 1..Len(allowedLog[id]) : allowedLog[id][i].t > now - Window}

\* C24: for the fixed and the sliding window kept in the store, check and
\* consumption are one atomic step: however the store operations of
\* concurrent checks of one identifier interleave, the number of allowed
\* checks in one window never exceeds requests_per_minute.
C24_WindowBoundUnderInterleaving ==
    \A id \in Callers :
        /\ strategy = "fixed_window"
               => \A b \in 0..(MaxTime \div Window) :
                      Cardinality(InBucket(id, b)) <= Limit
        /\ strategy = "sliding_window" => Cardinality(InWindow(id)) <= Limit

\* the persisted value of a counter of the service (0 while nothing is persisted)
Persisted(h, field) == IF h.present THEN h[field] ELSE 0

\* C25: outcomes recorded concurrently for one service by two instances on
\* one store are never lost: every record operation that finishes leaves the
\* persisted total_requests one higher, and the persisted failed_requests one
\* higher when the outcome is a failure (as long as the sliding window does
\* not cut the counters down).
C25_NoRecordedOutcomeLost ==
    [][\A i \in Instances, s \in Services :
          (InstRecordSave(i, s) /\ Persisted(hash[s], "total_requests") < SlidingWindowSize)
              => /\ hash'[s].total_requests = Persisted(hash[s], "total_requests") + 1
                 /\ hash'[s].failed_requests
                        = Persisted(hash[s], "failed_requests")
                              + (IF inst[i].success THEN 0 ELSE 1)]_vars

\* C26: token-bucket and leaky-bucket checks against the store are single
\* atomic operations and no update is lost under any interleaving: starting
\* from a full bucket the number of allowed token-bucket checks never exceeds
\* bucket_capacity + refill_rate * elapsed time (and the allowed leaky-bucket
\* checks stay below bucket_capacity + 1 + leak_rate * elapsed time).
C26_BucketBoundUnderInterleaving ==
    /\ strategy = "token_bucket" => granted * One <= Cap + RatePerTick * now
    /\ strategy = "leaky_bucket" => granted * One < Cap + One + RatePerTick * now

\* refilled tokens have been spent, and a check that read the clock before
\* the last write of the bucket is still to be answered
C26_Witness ==
    /\ strategy = "token_bucket"
    /\ granted > Capacity
    /\ \E t \in Tasks :
           /\ task[t].pc = "eval"
           /\ store[task[t].id].token.set
           /\ task[t].t0 < store[task[t].id].token.last

----------------------------------------------------------------------------
(* Further claims about the dispatcher *)

\* C28: for every request the dispatcher sends to a downstream service,
\* exactly one outcome is applied to the breaker's stats of the service before
\* the response is returned.
C28_DispatcherRecordsOutcome ==
    [][\A id \in Callers, s \in Services, o \in Outcomes :
          (ProcessRequest(id, s, o) /\ StepAt(bff'.steps, "downstream") # 0)
              => /\ circuits'[s].present
                 /\ circuits'[s].total_requests = LocalStats(s).total_requests + 1
                 /\ circuits'[s].failed_requests
                        = LocalStats(s).failed_requests
                              + (IF o = "raises" THEN 1 ELSE 0)]_vars

\* C29: a request whose rate-limit check returns allowed=False is rejected by
\* the dispatcher as rate-limit-exceeded and is never routed to a downstream
\* service.
C29_DeniedRequestNotRouted ==
    bff.denied
        => /\ StepAt(bff.steps, "downstream") = 0
           /\ bff.error = "429"

----------------------------------------------------------------------------
(* Further claims about the circuit breaker *)

\* C31: a breaker never rejects for ever: after a call that
\* call_with_circuit_breaker rejected (early enough for the timeout to run
\* out on the model's clock), with time advancing and calls arriving, a call
\* is admitted.
C31_RejectionEnds ==
    \A s \in Services :
        (last.op = "call" /\ last.svc = s /\ ~last.ok /\ now + cfg.timeout <= MaxClock)
            ~> (pc[s] = "executing")

----------------------------------------------------------------------------
(* Further claims about the rate limiter *)

\* C32: reset_rate_limit(A) leaves the stored and the locally cached
\* rate-limit state of every other identifier B as it was, also when B has A
\* as a prefix.
C32_ResetLeavesOthers ==
    [][\A a \in Ids, f \in ResetFailure :
          ResetRateLimit(a, f)
              => \A b \in Ids \ {a} :
                     store'[b] = store[b] /\ local_cache'[b] = local_cache[b]]_vars

----------------------------------------------------------------------------
(* Further claims about the two admission checks and the guarded call *)

\* C33: the synchronous and the asynchronous admission check agree: on the
\* stats of a service, with the same configuration and at the same time,
\* can_proceed answers true exactly when call_with_circuit_breaker admits.
C33_SyncAsyncAgree ==
    \A s \in Services :
        CanProceedSync(circuits[s], cfg, now)
            = CanProceedAsync(LocalStats(s), cfg, now).ok

\* the counter after one more outcome, cut down when it exceeds the window
Counted(total, n) == IF total > cfg.sliding_window_size THEN Reduce(n) ELSE n

C35_NoRepeatedAlert ==
    [][\A s \in Services :
          (last'.svc = s /\ last'.alert = "OPENED" /\ last'.op # "tick")
              => openedAt[s] = NoTime]_vars

\* failed_requests and slow_requests are counted among total_requests
CountersBounded(st) ==
    st.failed_requests <= st.total_requests /\ st.slow_requests <= st.total_requests

----------------------------------------------------------------------------
(* Claims about the per-service lock *)

\* C37: no task is suspended on the downstream call while it holds the lock
\* of the service, so while the wrapped function of one call runs another
\* call for the same service gets past the lock to its admission check.
C37_LockNotHeldAcrossCall ==
    \A s \in Services : pc[s] = "executing" => ENABLED CallBegin(s, "ok")

\* C38: at most one lock object ever exists for a service in a process:
\* tasks that record for the same service at the same time get the same
\* lock, so at most one of them is between its read and the end of its write.
C38_OneLockPerService ==
    \A s \in Services :
        /\ coros.created[s] <= 1
        /\ Cardinality({t \in Tasks : coros.tk[t].svc = s /\ coros.tk[t].pc \in InLock}) <= 1

\* C38 witness: two first operations for a service at the same time: one has
\* read and sent its write, the other waits for the same lock, and the store
\* holds nothing for the service yet.
C38_Witness ==
    /\ ~hash["trading"].present
    /\ coros.tk["t1"].pc = "hset" /\ coros.tk["t1"].svc = "trading"
    /\ coros.tk["t2"].pc = "acquire" /\ coros.tk["t2"].svc = "trading"
    /\ coros.tk["t1"].obj = coros.tk["t2"].obj

====
